---- MODULE Spec2Model ----
(***************************************************************************)
(* The sync scripts of vibesql-micro: sync_to_linux.py (the engine),       *)
(* copy_fixes.py and fix_scripts.py, as one sequential state machine.      *)
(*                                                                         *)
(* A string is a sequence of tokens.  A token is a path separator ("\\"    *)
(* or "/") or a chunk of a name holding no separator; a name is cut before *)
(* each of its dots ("main.go" is <<"main", ".go">>), so that two strings  *)
(* are equal iff their token sequences are, str + ".lf" is Append and      *)
(* str.endswith(".go") looks at the last token.  The scripts run on        *)
(* Windows (REPO is a drive path): os.sep is "\\", both separators are     *)
(* accepted, and no file name holds either.                                *)
(***************************************************************************)
EXTENDS FiniteSets, Integers, Sequences, TLC

\* Bounds of the model.
MaxLen == 4       \* longest file content explored, in bytes
MaxFaults == 2    \* most failing external calls (ssh, scp, open) in one run

\* b"\r" and b"\n" of fix_crlf.
CR == 13
LF == 10
Bytes == {CR, LF, 120}

VARIABLES
    script,    \* which script runs
    pc,        \* position of the script
    i,         \* index of the running for-loop
    pending,   \* os.walk: directories still to list
    root,      \* os.walk: directory being yielded
    files,     \* os.walk: names of root's listing not yet iterated
    fs,        \* local file system: path -> bytes
    fs0,       \* the local file system before the run
    calls,     \* subprocess.run invocations so far, in order
    out,       \* lines printed so far
    staged,    \* paths of the ".lf" files the run has created
    raised,    \* the uncaught exception that ended the run, or "none"
    exit,      \* "running", or the exit status "0" / "1"
    faults     \* failing external calls so far

vars == <<script, pc, i, pending, root, files, fs, fs0, calls, out, staged,
          raised, exit, faults>>

----------------------------------------------------------------------------
\* Configuration (module-level constants of the scripts).

REPO == <<"E:", "\\", "Repos", "\\", "VIBESQL-LOCAL", "\\", "repo">>

REMOTE_BASE == <<"/", "opt", "/", "vibesql">>

dirs_to_sync ==
    << <<"cmd", "/", "vibe">>,
       <<"internal", "/", "postgres">>,
       <<"internal", "/", "query">>,
       <<"internal", "/", "server">>,
       <<"internal", "/", "version">>,
       <<"scripts">>,
       <<"build">> >>

files_to_sync == << <<"go", ".mod">>, <<"Makefile">>, <<"README", ".md">> >>

\* copy_fixes.py and fix_scripts.py.
WORKTREE == <<"C:", "\\", "Users", "\\", "jon-local", "\\", ".zenflow", "\\",
              "worktrees", "\\", "vibe-sql-micro-server-be11">>

copy_files ==
    << <<"internal", "/", "postgres", "/", "connection", ".go">>,
       <<"internal", "/", "postgres", "/", "connection_test", ".go">>,
       <<"internal", "/", "postgres", "/", "manager_mock_test", ".go">> >>

scripts ==
    << WORKTREE \o <<"\\", "check_git", ".sh">>,
       WORKTREE \o <<"\\", "fix_and_build", ".sh">>,
       WORKTREE \o <<"\\", "check_linux", ".sh">> >>

\* The tuple handed to fn.endswith.
TextExts == {".go", ".sh", ".md", ".mod", ".json", ".yml", ".yaml", ".cmd", ".txt"}

----------------------------------------------------------------------------
\* String and path functions (ntpath).

IsSep(t) == t \in {"\\", "/"}

IsPrefix(p, q) == Len(p) <= Len(q) /\ SubSeq(q, 1, Len(p)) = p

\* str.replace(old, new) for one-token old and new.
replace(s, old, new) == [k \in 1..Len(s) |-> IF s[k] = old THEN new ELSE s[k]]

\* os.path.join(a, b), b relative and a not ending in a separator.
join(a, b) == a \o <<"\\">> \o b

\* os.path.normpath of a path without ".", ".." or doubled separators.
normpath(p) == replace(p, "/", "\\")

\* os.path.relpath(p, start) for p below start.
relpath(p, start) ==
    SubSeq(normpath(p), Len(normpath(start)) + 2, Len(normpath(p)))

\* str.rstrip of separators.
RECURSIVE rstripSeps(_)
rstripSeps(s) ==
    IF s # <<>> /\ IsSep(s[Len(s)]) THEN rstripSeps(SubSeq(s, 1, Len(s) - 1))
    ELSE s

\* os.path.dirname: the head of ntpath.split.
dirname(p) ==
    LET seps == {k \in 1..Len(p) : IsSep(p[k])}
        last == IF seps = {} THEN 0
                ELSE CHOOSE k \in seps : \A m \in seps : m <= k
        head == SubSeq(p, 1, last)
    IN IF rstripSeps(head) # <<>> THEN rstripSeps(head) ELSE head

\* fn.endswith((".go", ".sh", ...)).
IsText(fn) == fn # <<>> /\ fn[Len(fn)] \in TextExts

\* bytes.replace(b"\r\n", b"\n"): left to right, non-overlapping.
RECURSIVE fix_crlf(_)
fix_crlf(content) ==
    IF Len(content) < 2 THEN content
    ELSE IF content[1] = CR /\ content[2] = LF
         THEN <<LF>> \o fix_crlf(SubSeq(content, 3, Len(content)))
         ELSE <<content[1]>> \o fix_crlf(Tail(content))

----------------------------------------------------------------------------
\* The local file system: a function from normalised paths to bytes.

isfile(f, p) == normpath(p) \in DOMAIN f

isdir(f, p) == \E q \in DOMAIN f : IsPrefix(normpath(p) \o <<"\\">>, q)

Below(f, dir) == {q \in DOMAIN f : IsPrefix(normpath(dir) \o <<"\\">>, q)}

Rest(dir, q) == SubSeq(q, Len(dir) + 2, Len(q))

HasSep(s) == \E k \in 1..Len(s) : IsSep(s[k])

FirstSep(s) == CHOOSE k \in 1..Len(s) : IsSep(s[k]) /\ \A m \in 1..(k - 1) : ~IsSep(s[m])

\* os.scandir(dir): the names of its regular files, and of its directories.
ListFiles(f, dir) == {Rest(dir, q) : q \in {r \in Below(f, dir) : ~HasSep(Rest(dir, r))}}

ListDirs(f, dir) ==
    {SubSeq(Rest(dir, q), 1, FirstSep(Rest(dir, q)) - 1) :
        q \in {r \in Below(f, dir) : HasSep(Rest(dir, r))}}

Write(f, p, data) == [q \in DOMAIN f \cup {normpath(p)} |->
                         IF q = normpath(p) THEN data ELSE f[q]]

Remove(f, p) == [q \in DOMAIN f \ {normpath(p)} |-> f[q]]

----------------------------------------------------------------------------
\* The effects of a step on everything but the script's position:
\* st = [fs, calls, out, staged, raised].

Call(op, path, src, local, data, res) ==
    [op |-> op, path |-> path, src |-> src, local |-> local, data |-> data,
     res |-> res]

Line(kind, arg) == [kind |-> kind, arg |-> arg]

\* ssh(command) with command = "mkdir -p " + dir.  The return code is not read
\* and the caller drops the returned stdout; res is what the remote host did.
ssh(st, dir, res) ==
    [st EXCEPT !.calls = Append(@, Call("mkdir", dir, <<>>, <<>>, <<>>, res))]

\* scp(local, remote_path) run for source file src.  rc is scp's outcome when
\* the local file is there: "ok" (status 0), "fail" (non-zero status), or
\* "raise" (subprocess.run itself raises).  scp of a missing local file ends
\* with a non-zero status.
scp(st, src, local, remote_path, rc) ==
    LET there == isfile(st.fs, local)
        res == IF rc = "raise" THEN "raise"
               ELSE IF there THEN rc ELSE "fail"
        data == IF there THEN st.fs[normpath(local)] ELSE <<>>
        st1 == [st EXCEPT !.calls =
                   Append(@, Call("scp", remote_path, src, local, data, res))]
    IN IF res = "raise" THEN [st1 EXCEPT !.raised = "scp"]
       ELSE IF res = "fail"
            THEN [st1 EXCEPT !.out = Append(@, Line("FAIL", <<"stderr">>))]
            ELSE [st1 EXCEPT !.out = Append(@, Line("OK", remote_path))]

\* sync_file(local_path, remote_path).  o names the call that fails, if any:
\* "read" (open(local_path) raises), "write_open" (open(tmp) raises),
\* "write_partial" (f.write raises after tmp was created), "scp_fail",
\* "scp_raise", or "ok".
sync_file(st, local_path, remote_path, o) ==
    IF o = "read" \/ ~isfile(st.fs, local_path)
    THEN [st EXCEPT !.raised = "read"]
    ELSE
    LET data == fix_crlf(st.fs[normpath(local_path)])
        tmp == local_path \o <<".lf">>
    IN IF o = "write_open" THEN [st EXCEPT !.raised = "write"]
       ELSE IF o = "write_partial"
       THEN [st EXCEPT !.fs = Write(@, tmp, <<>>),
                       !.staged = @ \cup {normpath(tmp)},
                       !.raised = "write"]
       ELSE
       LET st1 == [st EXCEPT !.fs = Write(@, tmp, data),
                             !.staged = @ \cup {normpath(tmp)}]
           rc == CASE o = "scp_fail" -> "fail"
                   [] o = "scp_raise" -> "raise"
                   [] OTHER -> "ok"
           st2 == scp(st1, local_path, tmp, remote_path, rc)
       IN IF st2.raised # "none" THEN st2
          ELSE [st2 EXCEPT !.fs = Remove(@, tmp)]

\* What the remote host can answer to mkdir -p.
SshResults == <<"ok", "fail">>

\* The failures each kind of transfer can meet, the run without any first.
Outcomes(fn) ==
    IF IsText(fn)
    THEN <<"ok", "scp_fail", "scp_raise", "read", "write_open", "write_partial">>
    ELSE <<"ok", "scp_fail", "scp_raise">>

\* if fn.endswith(...): sync_file(...)  else: scp(...)
Transfer(st, fn, local_file, remote_file, o) ==
    IF IsText(fn) THEN sync_file(st, local_file, remote_file, o)
    ELSE scp(st, local_file, local_file, remote_file,
             CASE o = "scp_fail" -> "fail" [] o = "scp_raise" -> "raise"
               [] OTHER -> "ok")

\* remote_file of the directory loop without the replace of "\\" by "/".
WalkRemoteFileNoReplace(local_file) ==
    REMOTE_BASE \o <<"/">> \o relpath(local_file, REPO)

\* remote_file of the directory loop.
WalkRemoteFile(local_file) ==
    REMOTE_BASE \o <<"/">> \o replace(relpath(local_file, REPO), "\\", "/")

\* remote_file of the files_to_sync loop.
ListedRemoteFile(fn) == REMOTE_BASE \o <<"/">> \o fn

\* One round of the loop of copy_fixes.py for f.  o names the call that fails:
\* "copy" (shutil.copy2 raises) or one of sync_file's.  The status of scp is
\* not read, and "synced to linux" is printed whatever it was.
copy_fix(st, f, o) ==
    LET src == join(WORKTREE, replace(f, "/", "\\"))
        dst_repo == join(REPO, replace(f, "/", "\\"))
        dst_linux == <<"/", "opt", "/", "vibesql", "/">> \o f
        tmp == src \o <<".lf">>
    IN IF o = "copy" \/ ~isfile(st.fs, src) \/ ~isdir(st.fs, dirname(dst_repo))
       THEN [st EXCEPT !.raised = "copy"]
       ELSE
       LET st1 == [st EXCEPT !.fs = Write(@, dst_repo, st.fs[normpath(src)]),
                             !.out = Append(@, Line("copied", f))]
           data == fix_crlf(st.fs[normpath(src)])
       IN IF o = "read" THEN [st1 EXCEPT !.raised = "read"]
          ELSE IF o = "write_open" THEN [st1 EXCEPT !.raised = "write"]
          ELSE IF o = "write_partial"
          THEN [st1 EXCEPT !.fs = Write(@, tmp, <<>>),
                           !.staged = @ \cup {normpath(tmp)},
                           !.raised = "write"]
          ELSE
          LET res == CASE o = "scp_fail" -> "fail" [] o = "scp_raise" -> "raise"
                       [] OTHER -> "ok"
              st2 == [st1 EXCEPT
                        !.fs = Write(@, tmp, data),
                        !.staged = @ \cup {normpath(tmp)},
                        !.calls = Append(@, Call("scp", dst_linux, src, tmp,
                                                 data, res))]
          IN IF res = "raise" THEN [st2 EXCEPT !.raised = "scp"]
             ELSE [st2 EXCEPT !.fs = Remove(@, tmp),
                              !.out = Append(@, Line("synced", f))]

\* One round of the loop of fix_scripts.py for a path that exists: the file
\* is rewritten in place.
fix_script(st, path, o) ==
    IF o = "read" THEN [st EXCEPT !.raised = "read"]
    ELSE IF o = "write_open" THEN [st EXCEPT !.raised = "write"]
    ELSE IF o = "write_partial"
    THEN [st EXCEPT !.fs = Write(@, path, <<>>), !.raised = "write"]
    ELSE [st EXCEPT !.fs = Write(@, path, fix_crlf(st.fs[normpath(path)])),
                    !.out = Append(@, Line("Fixed", path))]

\* The failures a round of copy_fixes.py and of fix_scripts.py can meet.
CopyOutcomes ==
    <<"ok", "scp_fail", "scp_raise", "copy", "read", "write_open", "write_partial">>

FixOutcomes == <<"ok", "read", "write_open", "write_partial">>

Cost(x) == IF x \in {"ok"} THEN 0 ELSE 1

St == [fs |-> fs, calls |-> calls, out |-> out, staged |-> staged,
       raised |-> raised]

\* The step's effects become the state.  An uncaught exception ends the run
\* with status 1; a script that reaches its end exits with status 0.
Commit(st, nextpc) ==
    /\ fs' = st.fs
    /\ calls' = st.calls
    /\ out' = st.out
    /\ staged' = st.staged
    /\ raised' = st.raised
    /\ pc' = IF st.raised # "none" THEN "done" ELSE nextpc
    /\ exit' = IF st.raised # "none" THEN "1"
               ELSE IF nextpc = "done" THEN "0" ELSE exit

----------------------------------------------------------------------------
\* The local trees a run starts from.

InRepo(rel) == REPO \o <<"\\">> \o rel

MainGo == InRepo(<<"cmd", "\\", "vibe", "\\", "main", ".go">>)
MainGoLf == InRepo(<<"cmd", "\\", "vibe", "\\", "main", ".go", ".lf">>)
RunSh == InRepo(<<"scripts", "\\", "ci", "\\", "run", ".sh">>)
GoMod == InRepo(<<"go", ".mod">>)
Makefile == InRepo(<<"Makefile">>)

RepoFiles == {MainGo, MainGoLf, RunSh, GoMod, Makefile}

\* Every byte string of at most n bytes.
ByteSeqs(n) == UNION {[1..k -> Bytes] : k \in 0..n}

\* One line with a Windows line ending.
DosLine == <<120, CR, LF>>

\* Any set of the files, each holding DosLine; and main.go alone, holding any
\* bytes.
RepoTrees ==
    {[p \in S |-> DosLine] : S \in SUBSET RepoFiles}
    \cup {[p \in {MainGo} |-> c] : c \in ByteSeqs(MaxLen)}

InWorktree(rel) == WORKTREE \o <<"\\">> \o rel

\* copy_fixes.py: any of its files in the worktree, and the repository with or
\* without its internal\postgres directory.
CopyTrees ==
    {[p \in S \cup R |-> DosLine] :
        S \in SUBSET {InWorktree(replace(copy_files[k], "/", "\\")) : k \in 1..Len(copy_files)},
        R \in SUBSET {InRepo(<<"internal", "\\", "postgres", "\\", "doc", ".go">>)}}

\* sync_single.py: connection.go in the repository, or nothing.
Connection == InRepo(<<"internal", "\\", "postgres", "\\", "connection", ".go">>)

SingleTrees == {[p \in S |-> DosLine] : S \in SUBSET {Connection}}

\* fix_scripts.py: any of its scripts, holding a line or two.
ScriptTrees ==
    UNION {[S -> {DosLine, <<CR, CR, LF>>}] : S \in SUBSET {scripts[k] : k \in 1..Len(scripts)}}

----------------------------------------------------------------------------
\* sync_to_linux.py

Init ==
    /\ \/ script = "sync_to_linux" /\ fs \in RepoTrees
       \/ script = "copy_fixes" /\ fs \in CopyTrees
       \/ script = "fix_scripts" /\ fs \in ScriptTrees
       \/ script = "sync_single" /\ fs \in SingleTrees
    /\ fs0 = fs
    /\ pc = "start"
    /\ i = 1
    /\ pending = {}
    /\ root = <<>>
    /\ files = {}
    /\ calls = <<>>
    /\ out = <<>>
    /\ staged = {}
    /\ raised = "none"
    /\ exit = "running"
    /\ faults = 0

\* print("Syncing files to Linux box...")
Start ==
    /\ script = "sync_to_linux" /\ pc = "start"
    /\ out' = Append(out, Line("Syncing", <<>>))
    /\ pc' = "dirs"
    /\ UNCHANGED <<script, i, pending, root, files, fs, fs0, calls, staged,
                   raised, exit, faults>>

\* for d in dirs_to_sync: a directory that is not there is skipped.
SkipDir ==
    /\ pc = "dirs" /\ i <= Len(dirs_to_sync)
    /\ ~isdir(fs, join(REPO, dirs_to_sync[i]))
    /\ out' = Append(out, Line("SKIP", dirs_to_sync[i]))
    /\ i' = i + 1
    /\ UNCHANGED <<script, pc, pending, root, files, fs, fs0, calls, staged,
                   raised, exit, faults>>

\* for d in dirs_to_sync: mkdir -p of the remote directory, then os.walk.
EnterDir ==
    /\ pc = "dirs" /\ i <= Len(dirs_to_sync)
    /\ isdir(fs, join(REPO, dirs_to_sync[i]))
    /\ \E a \in DOMAIN SshResults :
        LET m == SshResults[a]
        IN /\ faults + Cost(m) <= MaxFaults
           /\ faults' = faults + Cost(m)
           /\ Commit(ssh(St, REMOTE_BASE \o <<"/">> \o dirs_to_sync[i], m), "walk")
    /\ pending' = {join(REPO, dirs_to_sync[i])}
    /\ files' = {}
    /\ UNCHANGED <<script, i, root, fs0>>

\* os.walk lists the next directory: its files are iterated, its
\* directories are walked later.  The order of a listing is the file system's.
WalkNext ==
    /\ pc = "walk" /\ files = {}
    /\ \E r \in pending :
        /\ root' = r
        /\ files' = ListFiles(fs, r)
        /\ pending' = (pending \ {r}) \cup {join(r, dn) : dn \in ListDirs(fs, r)}
    /\ UNCHANGED <<script, pc, i, fs, fs0, calls, out, staged, raised, exit,
                   faults>>

\* for fn in files: mkdir -p of the remote parent, then the transfer.
WalkFile ==
    /\ pc = "walk"
    /\ \E fn \in files, a \in DOMAIN SshResults : \E b \in DOMAIN Outcomes(fn) :
        LET m == SshResults[a]
            o == Outcomes(fn)[b]
            local_file == join(root, fn)
            remote_file == WalkRemoteFile(local_file)
            remote_parent == replace(dirname(remote_file), "\\", "/")
        IN /\ faults + Cost(m) + Cost(o) <= MaxFaults
           /\ faults' = faults + Cost(m) + Cost(o)
           /\ files' = files \ {fn}
           /\ Commit(Transfer(ssh(St, remote_parent, m), fn, local_file,
                              remote_file, o), "walk")
    /\ UNCHANGED <<script, i, pending, root, fs0>>

\* os.walk is exhausted: the next d.
WalkEnd ==
    /\ pc = "walk" /\ files = {} /\ pending = {}
    /\ pc' = "dirs"
    /\ i' = i + 1
    /\ UNCHANGED <<script, pending, root, files, fs, fs0, calls, out, staged,
                   raised, exit, faults>>

\* dirs_to_sync is exhausted: for fn in files_to_sync.
DirsEnd ==
    /\ pc = "dirs" /\ i = Len(dirs_to_sync) + 1
    /\ pc' = "files"
    /\ i' = 1
    /\ UNCHANGED <<script, pending, root, files, fs, fs0, calls, out, staged,
                   raised, exit, faults>>

\* for fn in files_to_sync: a file that is not there is passed over silently.
ListedSkip ==
    /\ pc = "files" /\ i <= Len(files_to_sync)
    /\ ~isfile(fs, join(REPO, files_to_sync[i]))
    /\ i' = i + 1
    /\ UNCHANGED <<script, pc, pending, root, files, fs, fs0, calls, out,
                   staged, raised, exit, faults>>

\* for fn in files_to_sync: the transfer, with no mkdir before it.
ListedFile ==
    /\ pc = "files" /\ i <= Len(files_to_sync)
    /\ isfile(fs, join(REPO, files_to_sync[i]))
    /\ \E b \in DOMAIN Outcomes(files_to_sync[i]) :
        LET o == Outcomes(files_to_sync[i])[b]
        IN /\ faults + Cost(o) <= MaxFaults
           /\ faults' = faults + Cost(o)
           /\ Commit(Transfer(St, files_to_sync[i], join(REPO, files_to_sync[i]),
                              ListedRemoteFile(files_to_sync[i]), o), "files")
    /\ i' = i + 1
    /\ UNCHANGED <<script, pending, root, files, fs0>>

\* print("\nDone! Synced all source files."), and the script ends.
Finish ==
    /\ pc = "files" /\ i = Len(files_to_sync) + 1
    /\ out' = Append(out, Line("Done", <<>>))
    /\ pc' = "done"
    /\ exit' = "0"
    /\ UNCHANGED <<script, i, pending, root, files, fs, fs0, calls, staged,
                   raised, faults>>

----------------------------------------------------------------------------
\* copy_fixes.py

\* for f in files: copy to the repository, stage, push, remove.
CopyFile ==
    /\ script = "copy_fixes" /\ pc = "start" /\ i <= Len(copy_files)
    /\ \E b \in DOMAIN CopyOutcomes :
        LET o == CopyOutcomes[b]
        IN /\ faults + Cost(o) <= MaxFaults
           /\ faults' = faults + Cost(o)
           /\ Commit(copy_fix(St, copy_files[i], o), "start")
    /\ i' = i + 1
    /\ UNCHANGED <<script, pending, root, files, fs0>>

\* print("done")
CopyEnd ==
    /\ script = "copy_fixes" /\ pc = "start" /\ i = Len(copy_files) + 1
    /\ out' = Append(out, Line("done", <<>>))
    /\ pc' = "done"
    /\ exit' = "0"
    /\ UNCHANGED <<script, i, pending, root, files, fs, fs0, calls, staged,
                   raised, faults>>

----------------------------------------------------------------------------
\* fix_scripts.py

\* for path in scripts: if os.path.exists(path), rewrite it.
FixScript ==
    /\ script = "fix_scripts" /\ pc = "start" /\ i <= Len(scripts)
    /\ isfile(fs, scripts[i])
    /\ \E b \in DOMAIN FixOutcomes :
        LET o == FixOutcomes[b]
        IN /\ faults + Cost(o) <= MaxFaults
           /\ faults' = faults + Cost(o)
           /\ Commit(fix_script(St, scripts[i], o), "start")
    /\ i' = i + 1
    /\ UNCHANGED <<script, pending, root, files, fs0>>

\* else: print(f"Skip: {path}")
FixSkip ==
    /\ script = "fix_scripts" /\ pc = "start" /\ i <= Len(scripts)
    /\ ~isfile(fs, scripts[i])
    /\ out' = Append(out, Line("Skip", scripts[i]))
    /\ i' = i + 1
    /\ UNCHANGED <<script, pc, pending, root, files, fs, fs0, calls, staged,
                   raised, exit, faults>>

\* The loop is over and the script ends.
FixEnd ==
    /\ script = "fix_scripts" /\ pc = "start" /\ i = Len(scripts) + 1
    /\ pc' = "done"
    /\ exit' = "0"
    /\ UNCHANGED <<script, i, pending, root, files, fs, fs0, calls, out,
                   staged, raised, faults>>

----------------------------------------------------------------------------
\* sync_single.py

\* Stage, push and remove connection.go (the statements of sync_file, with
\* the same scp), then print("done").
SingleSync ==
    /\ script = "sync_single" /\ pc = "start"
    /\ \E b \in DOMAIN Outcomes(<<"connection", ".go">>) :
        LET o == Outcomes(<<"connection", ".go">>)[b]
            f == join(join(join(REPO, <<"internal">>), <<"postgres">>),
                      <<"connection", ".go">>)
            st == sync_file(St, f,
                            REMOTE_BASE \o <<"/", "internal", "/", "postgres",
                                             "/", "connection", ".go">>, o)
        IN /\ faults + Cost(o) <= MaxFaults
           /\ faults' = faults + Cost(o)
           /\ Commit([st EXCEPT !.out = IF st.raised = "none"
                                        THEN Append(@, Line("done", <<>>))
                                        ELSE @], "done")
    /\ UNCHANGED <<script, i, pending, root, files, fs0>>

Next ==
    \/ Start
    \/ SkipDir
    \/ EnterDir
    \/ WalkNext
    \/ WalkFile
    \/ WalkEnd
    \/ DirsEnd
    \/ ListedSkip
    \/ ListedFile
    \/ Finish
    \/ CopyFile
    \/ CopyEnd
    \/ FixScript
    \/ FixSkip
    \/ FixEnd
    \/ SingleSync

Spec == Init /\ [][Next]_vars

TypeOK ==
    /\ pc \in {"start", "dirs", "walk", "files", "done"}
    /\ exit \in {"running", "0", "1"}
    /\ (pc = "done") = (exit # "running")
    /\ faults \in 0..MaxFaults

----------------------------------------------------------------------------
\* What the claims speak of.

Pushes == {k \in 1..Len(calls) : calls[k].op = "scp"}

Mkdirs == {k \in 1..Len(calls) : calls[k].op = "mkdir"}

\* The names of a path, outermost first.
RECURSIVE Split(_)
Split(s) ==
    IF ~HasSep(s) THEN <<s>>
    ELSE <<SubSeq(s, 1, FirstSep(s) - 1)>> \o Split(SubSeq(s, FirstSep(s) + 1, Len(s)))

RECURSIVE JoinSlash(_)
JoinSlash(names) ==
    IF names = <<>> THEN <<>>
    ELSE <<"/">> \o names[1] \o JoinSlash(Tail(names))

\* The root each script mirrors.
SyncRoot == IF script = "copy_fixes" THEN WORKTREE ELSE REPO

\* /opt/vibesql joined with the names of p below the sync root.
MirrorPath(p) ==
    JoinSlash(<<<<"opt">>, <<"vibesql">>>> \o
              Split(SubSeq(normpath(p), Len(SyncRoot) + 2, Len(p))))

\* The files of the starting tree a run is to mirror.
Tasks ==
    IF script = "sync_to_linux"
    THEN {p \in DOMAIN fs0 :
            \/ \E k \in 1..Len(dirs_to_sync) :
                  IsPrefix(normpath(join(REPO, dirs_to_sync[k])) \o <<"\\">>, p)
            \/ \E k \in 1..Len(files_to_sync) :
                  p = normpath(join(REPO, files_to_sync[k]))}
    ELSE IF script = "copy_fixes"
    THEN {p \in DOMAIN fs0 : IsPrefix(WORKTREE, p)}
    ELSE {}

PushesOf(p) == {k \in Pushes : normpath(calls[k].src) = p}

\* A printed line that reports the push to remote path r as done.
ReportedDone(r) ==
    \E n \in 1..Len(out) :
        \/ out[n].kind = "OK" /\ out[n].arg = r
        \/ out[n].kind = "synced" /\ <<"/", "opt", "/", "vibesql", "/">> \o out[n].arg = r

HasCRLF(b) == \E k \in 1..(Len(b) - 1) : b[k] = CR /\ b[k + 1] = LF

HasCRCRLF(b) == \E k \in 1..(Len(b) - 2) : b[k] = CR /\ b[k + 1] = CR /\ b[k + 2] = LF

----------------------------------------------------------------------------
\* C1: in a run of the sync, every push of a file is preceded by a
\* mkdir -p of that file's remote parent directory, for walked files and for
\* the individually listed files alike.
C1_MkdirBeforeEveryPush ==
    script = "sync_to_linux" =>
        \A k \in Pushes :
            \E m \in Mkdirs : m < k /\ calls[m].path = dirname(calls[k].path)

\* C2: in a run of the sync, mkdir -p is issued at most once for each
\* distinct remote directory.
C2_MkdirAtMostOnce ==
    script = "sync_to_linux" =>
        \A a, b \in Mkdirs : calls[a].path = calls[b].path => a = b

\* C3: once mkdir -p of a remote directory has failed, no push is attempted
\* for a file below that directory in the rest of the run, and no file that
\* was still to go below it is reported as transferred.
C3_FailedMkdirBlocksPushes ==
    script = "sync_to_linux" =>
        \A m \in Mkdirs : calls[m].res = "fail" =>
            /\ \A k \in Pushes :
                  ~(k > m /\ IsPrefix(calls[m].path \o <<"/">>, calls[k].path))
            /\ \A p \in Tasks :
                  (/\ IsPrefix(calls[m].path \o <<"/">>, MirrorPath(p))
                   /\ \A k \in PushesOf(p) : k > m)
                  => ~ReportedDone(MirrorPath(p))

\* A finished run of a script with several files in which exactly one push
\* failed.
OnePushFailed ==
    /\ script \in {"sync_to_linux", "copy_fixes"}
    /\ pc = "done" /\ raised = "none"
    /\ Cardinality({k \in Pushes : calls[k].res # "ok"}) = 1

\* C4: a run in which exactly one push fails and all others succeed has
\* pushed every other file and reported it transferred, ends its output with
\* a summary naming the failed file, and reports no failed push as
\* transferred or synced.
C4_OneFailureIsolatedAndNamed ==
    OnePushFailed =>
        LET k == CHOOSE n \in Pushes : calls[n].res # "ok"
        IN /\ \A p \in Tasks \ {normpath(calls[k].src)} :
                \E n \in PushesOf(p) :
                    calls[n].res = "ok" /\ ReportedDone(calls[n].path)
           /\ out[Len(out)].arg \in {calls[k].src, calls[k].path}
           /\ ~ReportedDone(calls[k].path)

\* C5: when reading a source file or staging its copy fails, the run goes
\* on: at its end at most that one file has had no push.
C5_ReadFailureIsolated ==
    (pc = "done" /\ raised \in {"read", "write"}) =>
        Cardinality({p \in Tasks : PushesOf(p) = {}}) <= 1

\* C6: no staging file the run created exists once the task that created
\* it has ended.
C6_NoStagingLeftBehind == \A t \in staged : t \notin DOMAIN fs

\* C7: every file of the source tree before the run is still there with the
\* same bytes.
C7_SourceTreeUnchanged ==
    \A p \in DOMAIN fs0 :
        IsPrefix(SyncRoot, p) => p \in DOMAIN fs /\ fs[p] = fs0[p]

\* C8: the bytes pushed for a file with an allow-listed extension hold no
\* carriage return directly followed by a line feed, whatever the source
\* bytes are.
C8_PushedTextHasNoCRLF ==
    \A k \in Pushes : IsText(calls[k].src) => ~HasCRLF(calls[k].data)

\* The extent of the failure of C8 (an invariant of Spec): the pushed bytes
\* hold a carriage return directly followed by a line feed exactly when the
\* source holds a carriage return directly followed by that pair.
PushedCRLFOnlyFromCRCRLF ==
    \A k \in Pushes :
        IsText(calls[k].src) =>
            (HasCRLF(calls[k].data) <=> HasCRCRLF(fs0[normpath(calls[k].src)]))

\* C9: every push goes to the remote base directory joined with the names of
\* the file's path below the sync root, and no two source files are pushed
\* to the same remote path.
C9_RemotePathMirrorsLocal ==
    /\ \A k \in Pushes : calls[k].path = MirrorPath(calls[k].src)
    /\ \A a, b \in Pushes :
          calls[a].path = calls[b].path => normpath(calls[a].src) = normpath(calls[b].src)

C9_Witness ==
    /\ script = "sync_to_linux" /\ exit = "0"
    /\ PushesOf(RunSh) # {} /\ PushesOf(MainGo) # {} /\ PushesOf(GoMod) # {}

\* C10: a run of the sync ends with a non-zero status exactly when the task
\* of some file failed.
C10_ExitStatusTellsFailure ==
    (script = "sync_to_linux" /\ pc = "done") =>
        ((exit # "0") <=> (raised # "none" \/ \E k \in Pushes : calls[k].res # "ok"))

====
